---- MODULE Spec2Model ----
(***************************************************************************)
(* Model of the component build controller (ComponentBuildReconciler):     *)
(* Reconcile, IsNewBuildRequired, SubmitNewBuild, getGitProvider and       *)
(* updateServiceAccountIfSecretNotLinked, together with the cluster        *)
(* objects they read and write.                                            *)
(***************************************************************************)
EXTENDS Integers, Sequences, FiniteSets, TLC

VARIABLES
    components,        \* Component objects of the namespace, by name
    triggerTemplates,  \* TriggerTemplate objects of the namespace, by component name
    secrets,           \* Secret objects of the namespace, by name
    serviceAccount,    \* the namespace's "pipeline" ServiceAccount
    pipelineRuns,      \* PipelineRun objects created so far, in creation order
    scheme,            \* r.Scheme: the kinds registered with the reconciler
    pc,                \* position of the Reconcile invocation of each component key
    local,             \* local variables of the Reconcile invocation of each key
    result,            \* (ctrl.Result, error) returned by the last invocation of each key
    trace,             \* what the current/last invocation of each key read and wrote
    lnk,               \* updateServiceAccountIfSecretNotLinked applied repeatedly
    gp                 \* getGitProvider applied to a drawn URL

vars == <<components, triggerTemplates, secrets, serviceAccount, pipelineRuns,
          scheme, pc, local, result, trace, lnk, gp>>

clusterVars == <<components, triggerTemplates, secrets, serviceAccount, pipelineRuns, scheme>>
reconcileVars == <<pc, local, result, trace>>

----------------------------------------------------------------------------
(* Bounds *)

\* longest parameter list of a TriggerTemplate drawn as input
MaxParams == 2
\* longest list of linked secrets of a ServiceAccount drawn as input
MaxLinked == 2
\* calls of updateServiceAccountIfSecretNotLinked in a row
MaxCalls == 2

----------------------------------------------------------------------------
(* Sequences *)

RECURSIVE SeqsUpTo(_, _)
SeqsUpTo(S, n) ==
    IF n = 0 THEN {<<>>}
    ELSE LET shorter == SeqsUpTo(S, n - 1)
         IN  shorter \cup {Append(s, x) : s \in {t \in shorter : Len(t) = n - 1}, x \in S}

Range(s) == {s[i] : i \in 1..Len(s)}

IsPrefix(s, t) == Len(s) <= Len(t) /\ \A i \in 1..Len(s) : s[i] = t[i]

----------------------------------------------------------------------------
(* Serialized PipelineRun payloads (runtime.RawExtension.Raw) and their     *)
(* decoding by json.Unmarshal into tektonapi.PipelineRun                    *)

\* A payload is either bytes that are no JSON document (valid = FALSE; the
\* empty byte string included) or a JSON object with its members in the
\* order the serializer wrote them.
RawPayload(valid, members) == [valid |-> valid, members |-> members]

RawA   == RawPayload(TRUE,  << <<"generateName", "build-">>, <<"storage", "1">> >>)
\* the same object written by another serializer: member order and the
\* formatting of the quantity differ
RawB   == RawPayload(TRUE,  << <<"storage", "1.000">>, <<"generateName", "build-">> >>)
RawC   == RawPayload(TRUE,  << <<"generateName", "test-">>, <<"storage", "1">> >>)
RawBad == RawPayload(FALSE, <<>>)

RawSet == {RawA, RawB, RawC, RawBad}

\* the value of the last member named key, or dflt (encoding/json: a later
\* duplicate member overwrites an earlier one; an absent member leaves the
\* zero value)
RECURSIVE MemberValue(_, _, _)
MemberValue(members, key, dflt) ==
    IF members = <<>> THEN dflt
    ELSE LET last == members[Len(members)]
         IN  IF last[1] = key THEN last[2]
             ELSE MemberValue(SubSeq(members, 1, Len(members) - 1), key, dflt)

ZeroPipelineRun == [generateName |-> "", storage |-> "0"]

\* json.Unmarshal(raw, &pipelineRun)
Unmarshal(raw) ==
    IF ~raw.valid
    THEN [err |-> TRUE, obj |-> ZeroPipelineRun]
    ELSE [err |-> FALSE,
          obj |-> [generateName |-> MemberValue(raw.members, "generateName", ""),
                   storage      |-> MemberValue(raw.members, "storage", "0")]]

\* the magnitude of a resource.Quantity, in thousandths
QuantityMilli(q) ==
    CASE q = "0"     -> 0
      [] q = "1"     -> 1000
      [] q = "1.000" -> 1000
      [] q = "2"     -> 2000

\* cmp.Comparer(func(x, y resource.Quantity) bool { return x.Cmp(y) == 0 })
QuantityEqual(x, y) == QuantityMilli(x) = QuantityMilli(y)

----------------------------------------------------------------------------
(* TriggerTemplate definitions and IsNewBuildRequired *)

TriggerTemplate(rv, params, rts) ==
    [resourceVersion |-> rv, params |-> params, resourcetemplates |-> rts]

ParamNameSet == {"p1", "new-param"}

\* cmp.Diff(existing, expected, triggerTemplateDiffOpts...) is non-empty:
\* TypeMeta, ObjectMeta and every RawExtension.Raw are ignored, which leaves
\* the parameter list and the number of resource templates
TriggerTemplatesDiffer(existing, expected) ==
    \/ existing.params # expected.params
    \/ Len(existing.resourcetemplates) # Len(expected.resourcetemplates)

\* cmp.Diff(existingPipelineRun, expectedPipelineRun, triggerResourceTemplateDiffOpts...)
\* is non-empty
PipelineRunsDiffer(x, y) ==
    \/ x.generateName # y.generateName
    \/ ~QuantityEqual(x.storage, y.storage)

DetectorResult(shouldBuild, err, panic) ==
    [shouldBuild |-> shouldBuild, err |-> err, panic |-> panic]

\* a mutant: the final return answers true
IsNewBuildRequired_AlwaysRebuild(existing, expected) ==
    IF TriggerTemplatesDiffer(existing, expected) THEN DetectorResult(TRUE, FALSE, FALSE)
    ELSE IF Len(expected.resourcetemplates) = 0 THEN DetectorResult(FALSE, FALSE, TRUE)
    ELSE IF Unmarshal(expected.resourcetemplates[1]).err THEN DetectorResult(FALSE, TRUE, FALSE)
    ELSE IF Unmarshal(existing.resourcetemplates[1]).err THEN DetectorResult(FALSE, TRUE, FALSE)
    ELSE DetectorResult(TRUE, FALSE, FALSE)

\* a mutant: the payloads are never compared
IsNewBuildRequired_TopLevelOnly(existing, expected) ==
    DetectorResult(TriggerTemplatesDiffer(existing, expected), FALSE, FALSE)

\* a mutant: the payloads are decoded before the top-level comparison
IsNewBuildRequired_DecodeFirst(existing, expected) ==
    IF Len(expected.resourcetemplates) = 0 \/ Len(existing.resourcetemplates) = 0
    THEN DetectorResult(FALSE, FALSE, TRUE)
    ELSE IF Unmarshal(expected.resourcetemplates[1]).err THEN DetectorResult(FALSE, TRUE, FALSE)
    ELSE IF Unmarshal(existing.resourcetemplates[1]).err THEN DetectorResult(FALSE, TRUE, FALSE)
    ELSE DetectorResult(
            \/ TriggerTemplatesDiffer(existing, expected)
            \/ PipelineRunsDiffer(Unmarshal(existing.resourcetemplates[1]).obj,
                                  Unmarshal(expected.resourcetemplates[1]).obj),
            FALSE, FALSE)

\* a mutant: the top-level comparison is skipped
IsNewBuildRequired_PayloadOnly(existing, expected) ==
    IF Len(expected.resourcetemplates) = 0 \/ Len(existing.resourcetemplates) = 0
    THEN DetectorResult(FALSE, FALSE, TRUE)
    ELSE IF Unmarshal(expected.resourcetemplates[1]).err THEN DetectorResult(FALSE, TRUE, FALSE)
    ELSE IF Unmarshal(existing.resourcetemplates[1]).err THEN DetectorResult(FALSE, TRUE, FALSE)
    ELSE DetectorResult(
            PipelineRunsDiffer(Unmarshal(existing.resourcetemplates[1]).obj,
                               Unmarshal(expected.resourcetemplates[1]).obj),
            FALSE, FALSE)

\* a mutant: a payload that does not decode counts as "no drift"
IsNewBuildRequired_SwallowDecodeError(existing, expected) ==
    IF TriggerTemplatesDiffer(existing, expected) THEN DetectorResult(TRUE, FALSE, FALSE)
    ELSE IF Len(expected.resourcetemplates) = 0 THEN DetectorResult(FALSE, FALSE, TRUE)
    ELSE IF Unmarshal(expected.resourcetemplates[1]).err THEN DetectorResult(FALSE, FALSE, FALSE)
    ELSE IF Unmarshal(existing.resourcetemplates[1]).err THEN DetectorResult(FALSE, FALSE, FALSE)
    ELSE DetectorResult(
            PipelineRunsDiffer(Unmarshal(existing.resourcetemplates[1]).obj,
                               Unmarshal(expected.resourcetemplates[1]).obj),
            FALSE, FALSE)

\* IsNewBuildRequired(ctx, component, existingTriggerTemplate, expectedTriggerTemplate):
\* (shouldBuild, err), or a run-time panic when ResourceTemplates[0] is out of range
IsNewBuildRequired(existing, expected) ==
    IF TriggerTemplatesDiffer(existing, expected) THEN DetectorResult(TRUE, FALSE, FALSE)
    ELSE IF Len(expected.resourcetemplates) = 0 THEN DetectorResult(FALSE, FALSE, TRUE)
    ELSE IF Unmarshal(expected.resourcetemplates[1]).err THEN DetectorResult(FALSE, TRUE, FALSE)
    ELSE IF Unmarshal(existing.resourcetemplates[1]).err THEN DetectorResult(FALSE, TRUE, FALSE)
    ELSE DetectorResult(
            PipelineRunsDiffer(Unmarshal(existing.resourcetemplates[1]).obj,
                               Unmarshal(expected.resourcetemplates[1]).obj),
            FALSE, FALSE)

----------------------------------------------------------------------------
(* updateServiceAccountIfSecretNotLinked *)

LinkResult(updated, linked) == [updated |-> updated, secrets |-> linked]

\* a mutant: the name is appended without looking for it
updateServiceAccountIfSecretNotLinked_AlwaysAppend(gitSecretName, linked) ==
    LinkResult(TRUE, Append(linked, gitSecretName))

\* a mutant: the list is replaced by the name
updateServiceAccountIfSecretNotLinked_Overwrite(gitSecretName, linked) ==
    IF \E i \in 1..Len(linked) : linked[i] = gitSecretName
    THEN LinkResult(FALSE, linked)
    ELSE LinkResult(TRUE, <<gitSecretName>>)

\* a mutant: the name is put in front of the list
updateServiceAccountIfSecretNotLinked_Prepend(gitSecretName, linked) ==
    IF \E i \in 1..Len(linked) : linked[i] = gitSecretName
    THEN LinkResult(FALSE, linked)
    ELSE LinkResult(TRUE, <<gitSecretName>> \o linked)

\* updateServiceAccountIfSecretNotLinked(gitSecretName, serviceAccount): the
\* returned flag and serviceAccount.Secrets (by name) after the call
updateServiceAccountIfSecretNotLinked(gitSecretName, linked) ==
    IF \E i \in 1..Len(linked) : linked[i] = gitSecretName
    THEN LinkResult(FALSE, linked)
    ELSE LinkResult(TRUE, Append(linked, gitSecretName))

----------------------------------------------------------------------------
(* getGitProvider: net/url.Parse on the characters of the URL *)

IsLetter(ch) == ch \in {"a", "b", "c", "g", "h", "o", "r", "s", "t", "u", "H", "S"}
IsDigit(ch) == ch \in {"0", "1"}
IsSchemeExtra(ch) == IsDigit(ch) \/ ch \in {"+", "-", "."}

\* strings.ToLower, on the capitals of the alphabet
ToLower(s) ==
    [i \in 1..Len(s) |-> IF s[i] = "H" THEN "h" ELSE IF s[i] = "S" THEN "s" ELSE s[i]]

\* index of the first occurrence of ch in s, 0 if none
RECURSIVE IndexFrom(_, _, _)
IndexFrom(s, ch, i) ==
    IF i > Len(s) THEN 0
    ELSE IF s[i] = ch THEN i
    ELSE IndexFrom(s, ch, i + 1)

Index(s, ch) == IndexFrom(s, ch, 1)

\* index of the last occurrence of ch in s, 0 if none
RECURSIVE LastIndexFrom(_, _, _)
LastIndexFrom(s, ch, i) ==
    IF i = 0 THEN 0
    ELSE IF s[i] = ch THEN i
    ELSE LastIndexFrom(s, ch, i - 1)

LastIndex(s, ch) == LastIndexFrom(s, ch, Len(s))

Before(s, ch) == IF Index(s, ch) = 0 THEN s ELSE SubSeq(s, 1, Index(s, ch) - 1)

\* url.validOptionalPort: empty, or a colon and digits only
ValidOptionalPort(port) ==
    \/ port = <<>>
    \/ port[1] = ":" /\ \A i \in 2..Len(port) : IsDigit(port[i])

\* url.parseHost, for a host that is no bracketed IP literal: what follows
\* the last colon must be a port
ValidHost(host) ==
    LastIndex(host, ":") = 0
    \/ ValidOptionalPort(SubSeq(host, LastIndex(host, ":"), Len(host)))

\* url.getScheme: [scheme, rest, err]
RECURSIVE GetSchemeFrom(_, _)
GetSchemeFrom(s, i) ==
    IF i > Len(s) THEN [scheme |-> <<>>, rest |-> s, err |-> FALSE]
    ELSE IF IsLetter(s[i]) THEN GetSchemeFrom(s, i + 1)
    ELSE IF IsSchemeExtra(s[i])
         THEN IF i = 1 THEN [scheme |-> <<>>, rest |-> s, err |-> FALSE]
              ELSE GetSchemeFrom(s, i + 1)
    ELSE IF s[i] = ":"
         THEN IF i = 1 THEN [scheme |-> <<>>, rest |-> <<>>, err |-> TRUE]
              ELSE [scheme |-> SubSeq(s, 1, i - 1), rest |-> SubSeq(s, i + 1, Len(s)), err |-> FALSE]
    ELSE [scheme |-> <<>>, rest |-> s, err |-> FALSE]

\* url.Parse(gitURL): [err, scheme, host]; the fragment and the query are cut
\* off, then the scheme (kept in lower case), then the authority between "//"
\* and the next "/", from which the user information up to the last "@" is
\* dropped
UrlParse(gitURL) ==
    LET noFrag == Before(gitURL, "#")
        sch    == GetSchemeFrom(noFrag, 1)
        rest   == Before(sch.rest, "?")
        hasSlash == Len(rest) >= 1 /\ rest[1] = "/"
        hasAuthority == Len(rest) >= 2 /\ rest[1] = "/" /\ rest[2] = "/"
        authority == Before(SubSeq(rest, 3, Len(rest)), "/")
        host   == SubSeq(authority, LastIndex(authority, "@") + 1, Len(authority))
        lower  == ToLower(sch.scheme)
    IN  IF sch.err THEN [err |-> TRUE, scheme |-> <<>>, host |-> <<>>]
        ELSE IF ~hasSlash /\ sch.scheme # <<>>
             THEN \* an opaque URL (scheme:opaque) has no host
                  [err |-> FALSE, scheme |-> lower, host |-> <<>>]
        ELSE IF ~hasSlash /\ Index(Before(rest, "/"), ":") # 0
             THEN \* first path segment in URL cannot contain colon
                  [err |-> TRUE, scheme |-> <<>>, host |-> <<>>]
        ELSE IF hasAuthority
             THEN IF ValidHost(host)
                  THEN [err |-> FALSE, scheme |-> lower, host |-> host]
                  ELSE \* invalid port after host
                       [err |-> TRUE, scheme |-> <<>>, host |-> <<>>]
        ELSE [err |-> FALSE, scheme |-> lower, host |-> <<>>]

\* a mutant: an empty scheme is not an error
getGitProvider_NoSchemeCheck(gitURL) ==
    LET u == UrlParse(gitURL)
    IN  IF u.err
        THEN [err |-> TRUE, provider |-> <<>>]
        ELSE [err |-> FALSE, provider |-> u.scheme \o <<":", "/", "/">> \o u.host]

\* getGitProvider(gitURL): [err, provider]
getGitProvider(gitURL) ==
    LET u == UrlParse(gitURL)
    IN  IF u.err \/ u.scheme = <<>>
        THEN [err |-> TRUE, provider |-> <<>>]
        ELSE [err |-> FALSE, provider |-> u.scheme \o <<":", "/", "/">> \o u.host]

\* "hs://u@gh/r", a fully qualified URL with user information
UrlHttps == <<"h", "s", ":", "/", "/", "u", "@", "g", "h", "/", "r">>
\* "gh/r", no scheme
UrlNoScheme == <<"g", "h", "/", "r">>
\* "g@gh:r", the scp-like shorthand
UrlShorthand == <<"g", "@", "g", "h", ":", "r">>

----------------------------------------------------------------------------
(* The cluster *)

Comps == {"c1", "c2"}

\* most PipelineRuns in the namespace: no Reconcile starts beyond it
MaxRuns == 2

\* 5 * time.Second
RequeueAfterSeconds == 5

\* component.Spec.Source.GitSource: the declared secret and the repository URL
GitSource(secret, url) == [secret |-> secret, url |-> url]

\* the build definition a component's declared state amounts to
BuildDefinition(params, rts) == [params |-> params, resourcetemplates |-> rts]

\* a Component as created by the user: Status.Devfile is still empty
NewComponent(source, build) ==
    [exists |-> TRUE, devfile |-> FALSE, secret |-> source.secret, url |-> source.url,
     build |-> build]

NoComponent ==
    [exists |-> FALSE, devfile |-> FALSE, secret |-> "", url |-> <<>>,
     build |-> BuildDefinition(<<>>, <<>>)]

NoTemplate == [exists |-> FALSE, obj |-> TriggerTemplate("", <<>>, <<>>)]

\* gitops.GenerateTriggerTemplate(component): a function of the component alone
GenerateTriggerTemplate(component) ==
    TriggerTemplate("", component.build.params, component.build.resourcetemplates)

\* the build definition of the sample component
SampleBuild == BuildDefinition(<<"p1">>, <<RawA>>)

\* the generated definition as the cluster stores it: the API server sets
\* the object's metadata
Stored(template) == [exists |-> TRUE, obj |-> [template EXCEPT !.resourceVersion = "1"]]

\* what an editor of the stored TriggerTemplate may turn it into
EditedTemplates ==
    {TriggerTemplate("1", <<"new-param">>, <<RawA>>),
     TriggerTemplate("1", <<"p1">>, <<RawB>>),
     TriggerTemplate("1", <<"p1">>, <<RawC>>),
     TriggerTemplate("1", <<"p1">>, <<RawBad>>)}

SecretNames == {"git-creds", "git-creds-2"}

NoSecret == [exists |-> FALSE, annotated |-> FALSE, annotation |-> <<>>]

\* value of a Secret's tekton.dev/git-0 annotation set by somebody else
OldAnnotation == <<"o">>

NoServiceAccount == [exists |-> FALSE, secrets |-> <<>>, resourceVersion |-> 0]

\* gitops.GenerateInitialBuildPipelineRun(component) with the owner reference
\* controllerutil.SetOwnerReference left on it ("" when it failed)
PipelineRun(c, owner) == [component |-> c, owner |-> owner]

RunsOf(c) == {i \in 1..Len(pipelineRuns) : pipelineRuns[i].component = c}

----------------------------------------------------------------------------
(* Reconcile invocations *)

NoLocal ==
    [gitSecretName |-> "", url |-> <<>>, gitHost |-> <<>>,
     saSecrets |-> <<>>, saResourceVersion |-> 0]

NoResult == [err |-> "", requeueAfter |-> 0]

\* what an invocation has read and written so far
NoTrace ==
    [componentGet |-> "none", ready |-> FALSE, templateGet |-> "none",
     existing |-> TriggerTemplate("", <<>>, <<>>), expected |-> TriggerTemplate("", <<>>, <<>>),
     detector |-> "none", submit |-> FALSE, failed |-> FALSE, ownerFailed |-> FALSE,
     generated |-> FALSE, secretGet |-> "none", oldAnnotated |-> FALSE,
     saGet |-> "none", saReads |-> 0,
     secretWrites |-> 0, saWrites |-> 0, creates |-> 0, createdAt |-> 0, runsAtStart |-> 0]

\* the answer of client.Get for an object that exists or not, when the API
\* call itself fails or not
ClientGet(exists, apiFails) ==
    IF apiFails THEN "error" ELSE IF exists THEN "found" ELSE "notfound"

\* where an invocation goes next, and what it returns if it returns
Outcome(next, err, requeueAfter) == [next |-> next, err |-> err, requeueAfter |-> requeueAfter]

\* a mutant: an empty Status.Devfile is deferred like a missing template
AfterComponentGet_RequeueNotReady(get, component, generateFails) ==
    IF get = "notfound" THEN Outcome("done", "", 0)
    ELSE IF get = "error" THEN Outcome("done", "get-component", 0)
    ELSE IF ~component.devfile THEN Outcome("done", "", RequeueAfterSeconds)
    ELSE IF generateFails THEN Outcome("done", "generate", 0)
    ELSE Outcome("getTriggerTemplate", "", 0)

\* lines 84-107: after r.Client.Get of the component
AfterComponentGet(get, component, generateFails) ==
    IF get = "notfound" THEN Outcome("done", "", 0)
    ELSE IF get = "error" THEN Outcome("done", "get-component", 0)
    ELSE IF ~component.devfile THEN Outcome("done", "", 0)
    ELSE IF generateFails THEN Outcome("done", "generate", 0)
    ELSE Outcome("getTriggerTemplate", "", 0)

\* line 197-199: the first step of SubmitNewBuild
SubmitNewBuildEntry(gitSecretName) ==
    IF gitSecretName # "" THEN "getSecret" ELSE "getServiceAccount"

DetectorKind(d) ==
    IF d.panic THEN "panic" ELSE IF d.err THEN "error"
    ELSE IF d.shouldBuild THEN "true" ELSE "false"

\* a mutant: SubmitNewBuild whatever IsNewBuildRequired decided
AfterTriggerTemplateGet_IgnoreDetector(get, existing, expected, gitSecretName) ==
    IF get = "notfound" THEN Outcome("done", "", RequeueAfterSeconds)
    ELSE IF get = "error" THEN Outcome("done", "get-triggertemplate", 0)
    ELSE LET d == IsNewBuildRequired(existing, expected)
         IN  IF d.panic THEN Outcome("panicked", "panic", 0)
             ELSE IF d.err THEN Outcome("done", "unmarshal", 0)
             ELSE Outcome(SubmitNewBuildEntry(gitSecretName), "", 0)

\* a mutant: a missing trigger template is the first build
AfterTriggerTemplateGet_FirstBuild(get, existing, expected, gitSecretName) ==
    IF get = "notfound" THEN Outcome(SubmitNewBuildEntry(gitSecretName), "", 0)
    ELSE IF get = "error" THEN Outcome("done", "get-triggertemplate", 0)
    ELSE LET d == IsNewBuildRequired(existing, expected)
         IN  IF d.panic THEN Outcome("panicked", "panic", 0)
             ELSE IF d.err THEN Outcome("done", "unmarshal", 0)
             ELSE IF d.shouldBuild THEN Outcome(SubmitNewBuildEntry(gitSecretName), "", 0)
             ELSE Outcome("done", "", 0)

\* lines 113-133: after r.Client.Get of the existing trigger template
AfterTriggerTemplateGet(get, existing, expected, gitSecretName) ==
    IF get = "notfound" THEN Outcome("done", "", RequeueAfterSeconds)
    ELSE IF get = "error" THEN Outcome("done", "get-triggertemplate", 0)
    ELSE LET d == IsNewBuildRequired(existing, expected)
         IN  IF d.panic THEN Outcome("panicked", "panic", 0)
             ELSE IF d.err THEN Outcome("done", "unmarshal", 0)
             ELSE IF d.shouldBuild THEN Outcome(SubmitNewBuildEntry(gitSecretName), "", 0)
             ELSE Outcome("done", "", 0)

\* Reconcile, lines 78-107: fetch the component, wait for its devfile model,
\* generate the expected trigger template
ReconcileStart(c) ==
    /\ pc[c] \in {"idle", "done"}
    /\ Len(pipelineRuns) < MaxRuns
    /\ \E apiFails \in BOOLEAN, generateFails \in BOOLEAN :
         LET get == ClientGet(components[c].exists, apiFails)
             o   == AfterComponentGet(get, components[c], generateFails)
             go  == o.next # "done"
         IN  /\ pc' = [pc EXCEPT ![c] = o.next]
             /\ result' = [result EXCEPT ![c] = [err |-> o.err, requeueAfter |-> o.requeueAfter]]
             /\ local' = [local EXCEPT ![c] =
                    IF go THEN [NoLocal EXCEPT !.gitSecretName = components[c].secret,
                                               !.url = components[c].url]
                    ELSE NoLocal]
             /\ trace' = [trace EXCEPT ![c] =
                    [NoTrace EXCEPT !.componentGet = get,
                                    !.ready = (get = "found" /\ components[c].devfile),
                                    !.failed = (o.err # ""),
                                    !.generated = go,
                                    !.expected = IF go THEN GenerateTriggerTemplate(components[c])
                                                 ELSE NoTrace.expected,
                                    !.runsAtStart = Cardinality(RunsOf(c))]]
    /\ UNCHANGED <<clusterVars, lnk, gp>>

\* Reconcile, lines 108-133: fetch the existing trigger template and decide
ReconcileGetTriggerTemplate(c) ==
    /\ pc[c] = "getTriggerTemplate"
    /\ \E apiFails \in BOOLEAN :
         LET get == ClientGet(triggerTemplates[c].exists, apiFails)
             existing == IF get = "found" THEN triggerTemplates[c].obj ELSE NoTemplate.obj
             o   == AfterTriggerTemplateGet(get, existing, trace[c].expected, local[c].gitSecretName)
         IN  /\ pc' = [pc EXCEPT ![c] = o.next]
             /\ result' = [result EXCEPT ![c] = [err |-> o.err, requeueAfter |-> o.requeueAfter]]
             /\ local' = [local EXCEPT ![c] = IF o.next \in {"done", "panicked"} THEN NoLocal ELSE @]
             /\ trace' = [trace EXCEPT ![c].templateGet = get,
                                       ![c].existing = existing,
                                       ![c].detector =
                                           IF get = "found"
                                           THEN DetectorKind(IsNewBuildRequired(existing, trace[c].expected))
                                           ELSE "none",
                                       ![c].submit = (o.next \notin {"done", "panicked"}),
                                       ![c].failed = (o.err # "")]
    /\ UNCHANGED <<clusterVars, lnk, gp>>

\* what a returning invocation leaves behind
Return(c, err) ==
    /\ pc' = [pc EXCEPT ![c] = "done"]
    /\ result' = [result EXCEPT ![c] = [err |-> err, requeueAfter |-> 0]]
    /\ local' = [local EXCEPT ![c] = NoLocal]

\* the repository URLs components declare
DeclaredUrls == {UrlHttps, UrlNoScheme, UrlShorthand}

\* getGitProvider of the declared URLs, computed once
GitProviders == [gitURL \in DeclaredUrls |-> getGitProvider(gitURL)]

\* line 210-213: the value written to the tekton.dev/git-0 annotation
GitSecretAnnotation(gitURL) ==
    IF gitURL \in DeclaredUrls THEN GitProviders[gitURL].provider
    ELSE getGitProvider(gitURL).provider

\* a mutant: an annotation already present is kept
AnnotatedSecret_KeepExisting(gitSecret, gitURL) ==
    IF gitSecret.annotated THEN gitSecret
    ELSE [gitSecret EXCEPT !.annotated = TRUE, !.annotation = GitSecretAnnotation(gitURL)]

\* lines 206-213: the fetched Secret with its tekton.dev/git-0 annotation
\* overwritten
AnnotatedSecret(gitSecret, gitURL) ==
    [gitSecret EXCEPT !.annotated = TRUE, !.annotation = GitSecretAnnotation(gitURL)]

\* a mutant: a Secret that is not there is written all the same
AfterSecretGet_IgnoreMissing(get) ==
    IF get = "error" THEN Outcome("done", "get-secret", 0)
    ELSE Outcome("updateSecret", "", 0)

\* lines 201-205: after r.Client.Get of the Secret
AfterSecretGet(get) ==
    IF get # "found" THEN Outcome("done", "get-secret", 0)
    ELSE Outcome("updateSecret", "", 0)

\* SubmitNewBuild, lines 197-213: fetch the declared Secret and annotate it
SubmitGetSecret(c) ==
    /\ pc[c] = "getSecret"
    /\ \E apiFails \in BOOLEAN :
         LET get == ClientGet(secrets[local[c].gitSecretName].exists, apiFails)
             o   == AfterSecretGet(get)
         IN  IF o.next = "done"
             THEN /\ Return(c, o.err)
                  /\ trace' = [trace EXCEPT ![c].failed = (o.err # ""),
                                            ![c].secretGet = get]
             ELSE /\ pc' = [pc EXCEPT ![c] = o.next]
                  /\ local' = [local EXCEPT ![c].gitHost =
                                  AnnotatedSecret(secrets[local[c].gitSecretName], local[c].url).annotation]
                  /\ trace' = [trace EXCEPT ![c].secretGet = get,
                                            ![c].oldAnnotated = secrets[local[c].gitSecretName].annotated]
                  /\ UNCHANGED result
    /\ UNCHANGED <<clusterVars, lnk, gp>>

\* SubmitNewBuild, lines 214-218: r.Client.Update of the Secret
SubmitUpdateSecret(c) ==
    /\ pc[c] = "updateSecret"
    /\ \E apiFails \in BOOLEAN :
         IF apiFails
         THEN /\ Return(c, "update-secret")
              /\ trace' = [trace EXCEPT ![c].failed = TRUE]
              /\ UNCHANGED secrets
         ELSE /\ secrets' = [secrets EXCEPT ![local[c].gitSecretName] =
                                [exists |-> TRUE, annotated |-> TRUE, annotation |-> local[c].gitHost]]
              /\ pc' = [pc EXCEPT ![c] = "getServiceAccount"]
              /\ trace' = [trace EXCEPT ![c].secretWrites = @ + 1]
              /\ UNCHANGED <<result, local>>
    /\ UNCHANGED <<components, triggerTemplates, serviceAccount, pipelineRuns, scheme, lnk, gp>>

\* a mutant: the ServiceAccount is never updated
AfterServiceAccountGet_SkipUpdate(get, updateRequired) ==
    IF get # "found" THEN Outcome("done", "get-serviceaccount", 0)
    ELSE Outcome("createPipelineRun", "", 0)

\* lines 224-237: after r.Client.Get of the ServiceAccount and
\* updateServiceAccountIfSecretNotLinked
AfterServiceAccountGet(get, updateRequired) ==
    IF get # "found" THEN Outcome("done", "get-serviceaccount", 0)
    ELSE IF updateRequired THEN Outcome("updateServiceAccount", "", 0)
    ELSE Outcome("createPipelineRun", "", 0)

\* SubmitNewBuild, lines 222-229: fetch the "pipeline" ServiceAccount and run
\* updateServiceAccountIfSecretNotLinked on the fetched copy
SubmitGetServiceAccount(c) ==
    /\ pc[c] = "getServiceAccount"
    /\ \E apiFails \in BOOLEAN :
         LET get  == ClientGet(serviceAccount.exists, apiFails)
             link == updateServiceAccountIfSecretNotLinked(local[c].gitSecretName, serviceAccount.secrets)
             o    == AfterServiceAccountGet(get, link.updated)
         IN  IF o.next = "done"
             THEN /\ Return(c, o.err)
                  /\ trace' = [trace EXCEPT ![c].failed = (o.err # ""),
                                            ![c].saGet = get,
                                            ![c].saReads = @ + 1]
             ELSE /\ pc' = [pc EXCEPT ![c] = o.next]
                  /\ local' = [local EXCEPT ![c].saSecrets = link.secrets,
                                            ![c].saResourceVersion = serviceAccount.resourceVersion]
                  /\ trace' = [trace EXCEPT ![c].saGet = get,
                                            ![c].saReads = @ + 1]
                  /\ UNCHANGED result
    /\ UNCHANGED <<clusterVars, lnk, gp>>

\* the API server rejects an update made from a stale read
UpdateConflicts(stored, resourceVersion) == stored.resourceVersion # resourceVersion

\* a mutant: a rejected update is logged and the build goes on
AfterServiceAccountUpdate_ConflictIgnored(conflict, apiFails) ==
    IF apiFails THEN Outcome("done", "update-serviceaccount", 0)
    ELSE Outcome("createPipelineRun", "", 0)

\* lines 230-234: after r.Client.Update of the ServiceAccount, which failed
\* with a conflict, failed otherwise, or succeeded
AfterServiceAccountUpdate(conflict, apiFails) ==
    IF apiFails THEN Outcome("done", "update-serviceaccount", 0)
    ELSE IF conflict THEN Outcome("done", "conflict", 0)
    ELSE Outcome("createPipelineRun", "", 0)

\* SubmitNewBuild, lines 230-236: r.Client.Update of the ServiceAccount
SubmitUpdateServiceAccount(c) ==
    /\ pc[c] = "updateServiceAccount"
    /\ \E apiFails \in BOOLEAN :
         LET conflict == UpdateConflicts(serviceAccount, local[c].saResourceVersion)
             o == AfterServiceAccountUpdate(conflict, apiFails)
         IN  IF apiFails \/ conflict
             THEN /\ IF o.next = "done"
                     THEN Return(c, o.err)
                     ELSE /\ pc' = [pc EXCEPT ![c] = o.next]
                          /\ UNCHANGED <<result, local>>
                  /\ trace' = [trace EXCEPT ![c].failed = (o.err # "")]
                  /\ UNCHANGED serviceAccount
             ELSE /\ serviceAccount' = [serviceAccount EXCEPT
                                           !.secrets = local[c].saSecrets,
                                           !.resourceVersion = @ + 1]
                  /\ pc' = [pc EXCEPT ![c] = o.next]
                  /\ trace' = [trace EXCEPT ![c].saWrites = @ + 1]
                  /\ UNCHANGED <<result, local>>
    /\ UNCHANGED <<components, triggerTemplates, secrets, pipelineRuns, scheme, lnk, gp>>

\* controllerutil.SetOwnerReference(&component, &initialBuild, r.Scheme):
\* the owner left on the PipelineRun; it fails, and leaves none, when the
\* scheme does not know the owner's kind
SetOwnerReference(c, registered) ==
    IF "Component" \in registered THEN [err |-> FALSE, owner |-> c]
    ELSE [err |-> TRUE, owner |-> ""]

\* a mutant: a failed Create is logged and not returned
CreateError_Swallowed(apiFails) == ""

\* lines 244-251: what SubmitNewBuild returns after r.Client.Create
CreateError(apiFails) == IF apiFails THEN "create" ELSE ""

\* SubmitNewBuild, lines 239-251: generate the PipelineRun, set its owner,
\* create it
SubmitCreatePipelineRun(c) ==
    /\ pc[c] = "createPipelineRun"
    /\ \E apiFails \in BOOLEAN :
         LET owned == SetOwnerReference(c, scheme)
         IN  IF apiFails
             THEN /\ Return(c, CreateError(apiFails))
                  /\ trace' = [trace EXCEPT ![c].failed = TRUE, ![c].ownerFailed = owned.err]
                  /\ UNCHANGED pipelineRuns
             ELSE /\ pipelineRuns' = Append(pipelineRuns, PipelineRun(c, owned.owner))
                  /\ Return(c, CreateError(apiFails))
                  /\ trace' = [trace EXCEPT ![c].creates = @ + 1,
                                            ![c].createdAt = Len(pipelineRuns) + 1,
                                            ![c].ownerFailed = owned.err]
    /\ UNCHANGED <<components, triggerTemplates, secrets, serviceAccount, scheme, lnk, gp>>

\* one step of the Reconcile invocation of key c
Reconcile(c) ==
    \/ ReconcileStart(c)
    \/ ReconcileGetTriggerTemplate(c)
    \/ SubmitGetSecret(c)
    \/ SubmitUpdateSecret(c)
    \/ SubmitGetServiceAccount(c)
    \/ SubmitUpdateServiceAccount(c)
    \/ SubmitCreatePipelineRun(c)

----------------------------------------------------------------------------
(* The other actors of the cluster *)

\* the component controller computes the devfile model of a new component
SetDevfile(c) ==
    /\ components[c].exists /\ ~components[c].devfile
    /\ components' = [components EXCEPT ![c].devfile = TRUE]
    /\ UNCHANGED <<triggerTemplates, secrets, serviceAccount, pipelineRuns, scheme,
                   reconcileVars, lnk, gp>>

\* the user deletes the component
DeleteComponent(c) ==
    /\ components[c].exists
    /\ components' = [components EXCEPT ![c].exists = FALSE]
    /\ UNCHANGED <<triggerTemplates, secrets, serviceAccount, pipelineRuns, scheme,
                   reconcileVars, lnk, gp>>

\* Argo CD syncs the generated trigger template from the gitops repository
SyncTriggerTemplate(c) ==
    /\ components[c].exists /\ components[c].devfile
    /\ triggerTemplates[c] # Stored(GenerateTriggerTemplate(components[c]))
    /\ triggerTemplates' = [triggerTemplates EXCEPT ![c] = Stored(GenerateTriggerTemplate(components[c]))]
    /\ UNCHANGED <<components, secrets, serviceAccount, pipelineRuns, scheme,
                   reconcileVars, lnk, gp>>

\* somebody updates the stored trigger template
EditTriggerTemplate(c) ==
    /\ triggerTemplates[c].exists
    /\ \E t \in EditedTemplates \ {triggerTemplates[c].obj} :
         triggerTemplates' = [triggerTemplates EXCEPT ![c].obj = t]
    /\ UNCHANGED <<components, secrets, serviceAccount, pipelineRuns, scheme,
                   reconcileVars, lnk, gp>>

\* the user creates a Secret, with or without a tekton.dev/git-0 annotation
CreateSecret(n) ==
    /\ ~secrets[n].exists
    /\ \E annotated \in BOOLEAN :
         secrets' = [secrets EXCEPT ![n] =
                        [exists |-> TRUE, annotated |-> annotated,
                         annotation |-> IF annotated THEN OldAnnotation ELSE <<>>]]
    /\ UNCHANGED <<components, triggerTemplates, serviceAccount, pipelineRuns, scheme,
                   reconcileVars, lnk, gp>>

\* OpenShift Pipelines creates the "pipeline" ServiceAccount
CreateServiceAccount ==
    /\ ~serviceAccount.exists
    /\ \E linked \in {<<>>, <<"other">>} :
         serviceAccount' = [exists |-> TRUE, secrets |-> linked, resourceVersion |-> 1]
    /\ UNCHANGED <<components, triggerTemplates, secrets, pipelineRuns, scheme,
                   reconcileVars, lnk, gp>>

----------------------------------------------------------------------------
(* Specifications *)

LnkIdle == [name |-> "", secrets |-> <<>>, before |-> <<>>, returned |-> <<>>]

GpIdle == [form |-> "none", scheme |-> <<>>, user |-> <<>>, host |-> <<>>, path |-> <<>>,
           query |-> <<>>, url |-> <<>>, called |-> FALSE, err |-> FALSE, provider |-> <<>>]

\* the git sources a component is declared with
GitSources ==
    {GitSource("git-creds", UrlHttps), GitSource("git-creds", UrlShorthand),
     GitSource("", UrlHttps)}

InitReconcile ==
    /\ pc = [c \in Comps |-> "idle"]
    /\ local = [c \in Comps |-> NoLocal]
    /\ result = [c \in Comps |-> NoResult]
    /\ trace = [c \in Comps |-> NoTrace]

\* one component has just been created in an empty namespace
Init ==
    /\ \E source \in GitSources :
         components = [c \in Comps |-> IF c = "c1" THEN NewComponent(source, SampleBuild)
                                       ELSE NoComponent]
    /\ triggerTemplates = [c \in Comps |-> NoTemplate]
    /\ secrets = [n \in SecretNames |-> NoSecret]
    /\ serviceAccount = NoServiceAccount
    /\ pipelineRuns = <<>>
    /\ scheme \in {{"Component"}, {}}
    /\ InitReconcile
    /\ lnk = LnkIdle
    /\ gp = GpIdle

Next ==
    \/ Reconcile("c1")
    \/ SetDevfile("c1")
    \/ DeleteComponent("c1")
    \/ SyncTriggerTemplate("c1")
    \/ EditTriggerTemplate("c1")
    \/ CreateSecret("git-creds")
    \/ CreateServiceAccount

Spec == Init /\ [][Next]_vars

----------------------------------------------------------------------------
(* Reconcile over drawn pairs of an existing and an expected trigger        *)
(* template                                                                 *)

ParamLists == SeqsUpTo(ParamNameSet, MaxParams)

\* the resource template lists drawn: none, one payload of each kind, and
\* two payloads of which one does not decode
ResourceTemplateLists ==
    {<<>>, <<RawA>>, <<RawB>>, <<RawC>>, <<RawBad>>, <<RawA, RawBad>>, <<RawBad, RawA>>}

BuildDefinitions ==
    {BuildDefinition(p, r) : p \in ParamLists, r \in ResourceTemplateLists}

ReadyComponent(source, build) == [NewComponent(source, build) EXCEPT !.devfile = TRUE]

\* a ready component, its Secret and the ServiceAccount in place, and any
\* stored trigger template against any generated one
InitDrift ==
    /\ \E build \in BuildDefinitions :
         components = [c \in Comps |->
                          IF c = "c1" THEN ReadyComponent(GitSource("git-creds", UrlHttps), build)
                          ELSE NoComponent]
    /\ \E stored \in BuildDefinitions :
         triggerTemplates = [c \in Comps |->
                          IF c = "c1"
                          THEN Stored(TriggerTemplate("", stored.params, stored.resourcetemplates))
                          ELSE NoTemplate]
    /\ secrets = [n \in SecretNames |->
                     IF n = "git-creds"
                     THEN [exists |-> TRUE, annotated |-> FALSE, annotation |-> <<>>]
                     ELSE NoSecret]
    /\ serviceAccount = [exists |-> TRUE, secrets |-> <<"other">>, resourceVersion |-> 1]
    /\ pipelineRuns = <<>>
    /\ scheme = {"Component"}
    /\ InitReconcile
    /\ lnk = LnkIdle
    /\ gp = GpIdle

NextDrift == Reconcile("c1")

SpecDrift == InitDrift /\ [][NextDrift]_vars

----------------------------------------------------------------------------
(* updateServiceAccountIfSecretNotLinked called repeatedly with one name    *)

LinkedNames == {"", "git-creds", "other"}

InitLinker ==
    /\ components = [c \in Comps |-> NoComponent]
    /\ triggerTemplates = [c \in Comps |-> NoTemplate]
    /\ secrets = [n \in SecretNames |-> NoSecret]
    /\ serviceAccount = NoServiceAccount
    /\ pipelineRuns = <<>>
    /\ scheme = {"Component"}
    /\ InitReconcile
    /\ \E name \in LinkedNames, linked \in SeqsUpTo(LinkedNames, MaxLinked) :
         lnk = [name |-> name, secrets |-> linked, before |-> <<>>, returned |-> <<>>]
    /\ gp = GpIdle

\* one more call on the ServiceAccount the previous call left
CallLinker ==
    /\ Len(lnk.returned) < MaxCalls
    /\ LET r == updateServiceAccountIfSecretNotLinked(lnk.name, lnk.secrets)
       IN  lnk' = [lnk EXCEPT !.secrets = r.secrets,
                              !.before = Append(@, lnk.secrets),
                              !.returned = Append(@, r.updated)]
    /\ UNCHANGED <<clusterVars, reconcileVars, gp>>

NextLinker == CallLinker

SpecLinker == InitLinker /\ [][NextLinker]_vars

----------------------------------------------------------------------------
(* Two components of one namespace, both with drift, reconciled             *)
(* concurrently against the shared ServiceAccount                           *)

----------------------------------------------------------------------------
(* getGitProvider on drawn URLs *)

UrlSchemes == {<<"h", "s">>, <<"s", "+", "h">>, <<"H", "s">>}
UrlUsers   == {<<>>, <<"u">>}
UrlHosts   == {<<"g", "h">>, <<"b", "b", ".", "o">>, <<"g", "h", ":", "1">>}
UrlPaths   == {<<>>, <<"/", "r">>}
UrlQueries == {<<>>, <<"?", "a">>}

\* the shapes of the input: scheme://[user@]host[/path][?query], scheme:path,
\* host[/path][?query], user@host:path, :host, scheme://host:r
UrlForms == {"url", "opaque", "hostpath", "shorthand", "colon", "badport"}

UserInfo(user) == IF user = <<>> THEN <<>> ELSE user \o <<"@">>

ComposeUrl(form, sch, user, host, path, query) ==
    CASE form = "url"       -> sch \o <<":", "/", "/">> \o UserInfo(user) \o host \o path \o query
      [] form = "opaque"    -> sch \o <<":">> \o host
      [] form = "hostpath"  -> host \o path \o query
      [] form = "shorthand" -> UserInfo(user) \o host \o <<":", "r">> \o path
      [] form = "colon"     -> <<":">> \o host \o path
      [] form = "badport"   -> sch \o <<":", "/", "/">> \o host \o <<":", "r">> \o path

\* the parts a form is composed of; the others are empty
UrlInputs ==
    {[form |-> "url", scheme |-> s, user |-> u, host |-> h, path |-> p, query |-> q] :
        s \in UrlSchemes, u \in UrlUsers, h \in UrlHosts, p \in UrlPaths, q \in UrlQueries}
    \cup {[form |-> "opaque", scheme |-> s, user |-> <<>>, host |-> h, path |-> <<>>, query |-> <<>>] :
        s \in UrlSchemes, h \in {<<"g", "h">>}}
    \cup {[form |-> "hostpath", scheme |-> <<>>, user |-> <<>>, host |-> h, path |-> p, query |-> q] :
        h \in {<<"g", "h">>, <<"b", "b", ".", "o">>}, p \in UrlPaths, q \in UrlQueries}
    \cup {[form |-> "shorthand", scheme |-> <<>>, user |-> <<"u">>, host |-> h, path |-> p, query |-> <<>>] :
        h \in {<<"g", "h">>, <<"b", "b", ".", "o">>}, p \in UrlPaths}
    \cup {[form |-> "colon", scheme |-> <<>>, user |-> <<>>, host |-> h, path |-> p, query |-> <<>>] :
        h \in {<<"g", "h">>}, p \in UrlPaths}
    \cup {[form |-> "badport", scheme |-> s, user |-> <<>>, host |-> h, path |-> p, query |-> <<>>] :
        s \in UrlSchemes, h \in {<<"g", "h">>}, p \in UrlPaths}

InitUrl ==
    /\ InitReconcile
    /\ components = [c \in Comps |-> NoComponent]
    /\ triggerTemplates = [c \in Comps |-> NoTemplate]
    /\ secrets = [n \in SecretNames |-> NoSecret]
    /\ serviceAccount = NoServiceAccount
    /\ pipelineRuns = <<>>
    /\ scheme = {"Component"}
    /\ lnk = LnkIdle
    /\ \E in \in UrlInputs :
         gp = [form |-> in.form, scheme |-> in.scheme, user |-> in.user, host |-> in.host,
               path |-> in.path, query |-> in.query,
               url |-> ComposeUrl(in.form, in.scheme, in.user, in.host, in.path, in.query),
               called |-> FALSE, err |-> FALSE, provider |-> <<>>]

\* gitHost, err := getGitProvider(url)
CallGetGitProvider ==
    /\ ~gp.called
    /\ LET r == getGitProvider(gp.url)
       IN  gp' = [gp EXCEPT !.called = TRUE, !.err = r.err, !.provider = r.provider]
    /\ UNCHANGED <<clusterVars, reconcileVars, lnk>>

NextUrl == CallGetGitProvider

SpecUrl == InitUrl /\ [][NextUrl]_vars

DriftedTemplate == Stored(TriggerTemplate("", <<"new-param">>, <<RawA>>))

InitShared ==
    /\ components = [c \in Comps |->
                        IF c = "c1" THEN ReadyComponent(GitSource("git-creds", UrlHttps), SampleBuild)
                        ELSE ReadyComponent(GitSource("git-creds-2", UrlHttps), SampleBuild)]
    /\ triggerTemplates = [c \in Comps |-> DriftedTemplate]
    /\ secrets = [n \in SecretNames |-> [exists |-> TRUE, annotated |-> FALSE, annotation |-> <<>>]]
    /\ \E linked \in {<<>>, <<"other">>} :
         serviceAccount = [exists |-> TRUE, secrets |-> linked, resourceVersion |-> 1]
    /\ pipelineRuns = <<>>
    /\ scheme = {"Component"}
    /\ InitReconcile
    /\ lnk = LnkIdle
    /\ gp = GpIdle

NextShared == \E c \in Comps : Reconcile(c)

SpecShared == InitShared /\ [][NextShared]_vars

----------------------------------------------------------------------------
(* Two drifted components under the controller's work queue: a key is
   reconciled again only when its last Reconcile returned an error or asked
   for a requeue *)

Requeued(c) == result[c].err # "" \/ result[c].requeueAfter > 0

QueuedStart(c) ==
    /\ pc[c] = "done" => Requeued(c)
    /\ ReconcileStart(c)

QueuedReconcile(c) ==
    \/ QueuedStart(c)
    \/ ReconcileGetTriggerTemplate(c)
    \/ SubmitGetSecret(c)
    \/ SubmitUpdateSecret(c)
    \/ SubmitGetServiceAccount(c)
    \/ SubmitUpdateServiceAccount(c)
    \/ SubmitCreatePipelineRun(c)

NextQueued == \E c \in Comps : QueuedReconcile(c)

\* the step, taken with no error
Succeeds(step, c) == step /\ ~trace'[c].failed

\* a Reconcile in progress takes its next step and a requeued key is
\* reconciled again; an API call that is made again and again and is not
\* bound to be rejected succeeds in the end
FairQueued ==
    \A c \in Comps :
        /\ WF_vars(QueuedReconcile(c))
        /\ SF_vars(Succeeds(QueuedStart(c), c))
        /\ SF_vars(Succeeds(ReconcileGetTriggerTemplate(c), c))
        /\ SF_vars(Succeeds(SubmitGetSecret(c), c))
        /\ SF_vars(Succeeds(SubmitUpdateSecret(c), c))
        /\ SF_vars(Succeeds(SubmitGetServiceAccount(c), c))
        /\ SF_vars(Succeeds(SubmitUpdateServiceAccount(c), c))
        /\ SF_vars(Succeeds(SubmitCreatePipelineRun(c), c))

SpecQueued == InitShared /\ [][NextQueued]_vars /\ FairQueued

----------------------------------------------------------------------------
(* Properties *)

NoWrites(c) ==
    /\ trace[c].secretWrites = 0
    /\ trace[c].saWrites = 0
    /\ trace[c].creates = 0
    /\ Cardinality(RunsOf(c)) = trace[c].runsAtStart

\* C1: a Reconcile of a ready component that does not find the trigger
\* template returns no error and a requeue after 5 seconds, and has created
\* no PipelineRun and written neither the Secret nor the ServiceAccount.
C1_TemplateNotFoundDefers ==
    \A c \in Comps :
        (pc[c] = "done" /\ trace[c].ready /\ trace[c].templateGet = "notfound")
        => /\ result[c].err = ""
           /\ result[c].requeueAfter = 5
           /\ NoWrites(c)

C1_Witness ==
    \E c \in Comps :
        pc[c] = "done" /\ trace[c].ready /\ trace[c].templateGet = "notfound"

\* C2: once a Reconcile of a ready component has run to its end on the
\* trigger template the sync agent materialized from the generated one, a
\* PipelineRun labelled with the component exists (the first build).
C2_FirstBuildSubmitted ==
    \A c \in Comps :
        (/\ pc[c] = "done" /\ result[c].err = ""
         /\ trace[c].ready /\ trace[c].templateGet = "found"
         /\ triggerTemplates[c] = Stored(GenerateTriggerTemplate(components[c]))
         /\ trace[c].existing = triggerTemplates[c].obj)
        => RunsOf(c) # {}

WellFormed(d) ==
    Len(d.resourcetemplates) >= 1 /\ ~Unmarshal(d.resourcetemplates[1]).err

SameDefinition(a, b) ==
    a.params = b.params /\ a.resourcetemplates = b.resourcetemplates

\* C3: IsNewBuildRequired(d, d) is (false, nil) for a well-formed d, and a
\* Reconcile that finds the existing definition identical to the expected
\* one returns (Result{}, nil) having created no PipelineRun and written
\* neither the Secret nor the ServiceAccount.
C3_IdenticalDefinitionsNoBuild ==
    \A c \in Comps :
        (trace[c].templateGet = "found" /\ WellFormed(trace[c].expected))
        => /\ IsNewBuildRequired(trace[c].expected, trace[c].expected)
                 = DetectorResult(FALSE, FALSE, FALSE)
           /\ SameDefinition(trace[c].existing, trace[c].expected)
              => /\ trace[c].detector = "false"
                 /\ pc[c] = "done"
                 /\ result[c] = NoResult
                 /\ NoWrites(c)

C3_Witness ==
    \E c \in Comps :
        /\ pc[c] = "done" /\ trace[c].templateGet = "found"
        /\ WellFormed(trace[c].expected)
        /\ SameDefinition(trace[c].existing, trace[c].expected)
        /\ trace[c].existing.params # <<>>

\* C4: a Reconcile that finds the existing and the expected definition to
\* differ in the parameter list, and none of whose reads, writes and owner
\* attachment fails, has created exactly one PipelineRun, owned by the
\* component.
C4_ParamChangeOneOwnedBuild ==
    \A c \in Comps :
        (/\ pc[c] = "done" /\ ~trace[c].failed /\ ~trace[c].ownerFailed
         /\ trace[c].templateGet = "found"
         /\ trace[c].existing.params # trace[c].expected.params)
        => /\ trace[c].creates = 1
           /\ Cardinality(RunsOf(c)) = trace[c].runsAtStart + 1
           /\ trace[c].createdAt \in RunsOf(c)
           /\ pipelineRuns[trace[c].createdAt].owner = c

C4_Witness ==
    \E c \in Comps :
        /\ pc[c] = "done" /\ ~trace[c].failed /\ ~trace[c].ownerFailed
        /\ trace[c].templateGet = "found"
        /\ trace[c].existing.params[1] = "new-param"
        /\ trace[c].expected.params[1] = "p1"
        /\ trace[c].existing.resourcetemplates = trace[c].expected.resourcetemplates

\* the two definitions agree on the compared top-level fields and both
\* first payloads decode
TopLevelEqualDecodable(a, b) ==
    /\ a.params = b.params
    /\ Len(a.resourcetemplates) = Len(b.resourcetemplates)
    /\ WellFormed(a) /\ WellFormed(b)

\* C5: when the existing and the expected definition agree on the parameters
\* and the number of resource templates and the decoded first payloads
\* differ in generateName, IsNewBuildRequired answers (true, nil) and
\* Reconcile calls SubmitNewBuild, which creates one PipelineRun unless one
\* of its steps fails.
C5_PayloadChangeBuilds ==
    \A c \in Comps :
        (/\ trace[c].templateGet = "found"
         /\ TopLevelEqualDecodable(trace[c].existing, trace[c].expected)
         /\ Unmarshal(trace[c].existing.resourcetemplates[1]).obj.generateName
               # Unmarshal(trace[c].expected.resourcetemplates[1]).obj.generateName)
        => /\ trace[c].detector = "true"
           /\ trace[c].submit
           /\ (pc[c] = "done" /\ ~trace[c].failed) => trace[c].creates = 1

C5_Witness ==
    \E c \in Comps :
        /\ pc[c] = "done" /\ ~trace[c].failed /\ trace[c].templateGet = "found"
        /\ TopLevelEqualDecodable(trace[c].existing, trace[c].expected)
        /\ Unmarshal(trace[c].existing.resourcetemplates[1]).obj.generateName = "test-"
        /\ Unmarshal(trace[c].expected.resourcetemplates[1]).obj.generateName = "build-"

\* C6: when the existing and the expected definition differ in the parameter
\* list or in the number of resource templates, IsNewBuildRequired answers
\* (true, nil) whatever the payloads are: equal, different, not decodable or
\* absent.
C6_TopLevelDiffShortCircuits ==
    \A c \in Comps :
        (/\ trace[c].templateGet = "found"
         /\ \/ trace[c].existing.params # trace[c].expected.params
            \/ Len(trace[c].existing.resourcetemplates) # Len(trace[c].expected.resourcetemplates))
        => /\ trace[c].detector = "true"
           /\ trace[c].submit
           /\ result[c].err \notin {"unmarshal", "panic"}

C6_Witness ==
    \E c \in Comps :
        /\ trace[c].templateGet = "found" /\ trace[c].detector = "true"
        /\ trace[c].existing.params = <<"new-param", "p1">>
        /\ trace[c].expected.params = <<"p1", "new-param">>
        /\ trace[c].existing.resourcetemplates = <<RawBad>>
        /\ trace[c].expected.resourcetemplates = <<>>

\* C7: when the parameters and the number of resource templates agree and
\* the first payload of the expected or of the existing definition does not
\* decode, IsNewBuildRequired returns an error, Reconcile returns it, and
\* the invocation creates no PipelineRun and writes neither the Secret nor
\* the ServiceAccount.
C7_DecodeFailureIsError ==
    \A c \in Comps :
        (/\ trace[c].templateGet = "found"
         /\ trace[c].existing.params = trace[c].expected.params
         /\ Len(trace[c].existing.resourcetemplates) = Len(trace[c].expected.resourcetemplates)
         /\ Len(trace[c].expected.resourcetemplates) >= 1
         /\ \/ Unmarshal(trace[c].expected.resourcetemplates[1]).err
            \/ Unmarshal(trace[c].existing.resourcetemplates[1]).err)
        => /\ trace[c].detector = "error"
           /\ pc[c] = "done"
           /\ result[c].err = "unmarshal"
           /\ trace[c].failed
           /\ ~trace[c].submit
           /\ NoWrites(c)

C7_Witness ==
    \E c \in Comps :
        /\ pc[c] = "done" /\ trace[c].templateGet = "found"
        /\ trace[c].existing.params = trace[c].expected.params
        /\ trace[c].existing.resourcetemplates = <<RawBad>>
        /\ trace[c].expected.resourcetemplates = <<RawA>>

\* the list a call left: the list before the next call, or the current one
LinkedAfter(i) == IF i < Len(lnk.before) THEN lnk.before[i + 1] ELSE lnk.secrets

\* C8: updateServiceAccountIfSecretNotLinked returns true exactly when the
\* name was not in the list before the call; called again with the same
\* name, it returns false and leaves the list as it is.
C8_LinkIdempotent ==
    \A i \in 1..Len(lnk.returned) :
        /\ lnk.returned[i] = (lnk.name \notin Range(lnk.before[i]))
        /\ ~lnk.returned[i] => LinkedAfter(i) = lnk.before[i]
        /\ i >= 2 => ~lnk.returned[i] /\ LinkedAfter(i) = lnk.before[i]

C8_Witness ==
    /\ Len(lnk.returned) >= 2
    /\ lnk.returned[1]
    /\ lnk.before[1] # <<>>

\* C9: updateServiceAccountIfSecretNotLinked leaves the list as it was or
\* appends the given name at its end: the list before the call is a prefix
\* of the list after it.
C9_LinkAppendsOnly ==
    \A i \in 1..Len(lnk.returned) :
        /\ IsPrefix(lnk.before[i], LinkedAfter(i))
        /\ \/ LinkedAfter(i) = lnk.before[i]
           \/ LinkedAfter(i) = lnk.before[i] \o <<lnk.name>>

C9_Witness ==
    /\ Len(lnk.returned) >= 1
    /\ lnk.returned[1]
    /\ Len(lnk.before[1]) >= 2
    /\ lnk.before[1][1] # lnk.before[1][2]

\* C10: whatever the interleaving of the invocations for the two components,
\* every name linked in the stored ServiceAccount stays linked.
C10_LinkedSecretsOnlyGrow ==
    [][Range(serviceAccount.secrets) \subseteq Range(serviceAccount'.secrets)]_vars

C10_Witness ==
    /\ \E c, d \in Comps :
         /\ c # d
         /\ pc[c] = "done" /\ result[c].err = "conflict"
         /\ trace[d].saWrites = 1
         /\ components[d].secret \in Range(serviceAccount.secrets)
    /\ "other" \in Range(serviceAccount.secrets)

\* C11: an invocation whose ServiceAccount update was rejected as a conflict
\* returns that conflict only after it has fetched the ServiceAccount again
\* and retried (at least two reads of the ServiceAccount in the invocation).
C11_ConflictRetriedLocally ==
    \A c \in Comps :
        (pc[c] = "done" /\ result[c].err = "conflict") => trace[c].saReads >= 2

\* C12: an invocation that finds the declared Secret missing returns an error
\* having written no Secret, no ServiceAccount and created no PipelineRun; one
\* that finds the "pipeline" ServiceAccount missing returns an error having
\* written no ServiceAccount and created no PipelineRun.
C12_MissingDependenciesFatal ==
    \A c \in Comps :
        /\ trace[c].secretGet = "notfound"
           => /\ pc[c] = "done" /\ result[c].err # ""
              /\ NoWrites(c)
        /\ trace[c].saGet = "notfound"
           => /\ pc[c] = "done" /\ result[c].err # ""
              /\ trace[c].saWrites = 0 /\ trace[c].creates = 0
              /\ Cardinality(RunsOf(c)) = trace[c].runsAtStart

C12_Witness ==
    \E c \in Comps :
        /\ pc[c] = "done" /\ trace[c].saGet = "notfound"
        /\ trace[c].secretGet = "found" /\ trace[c].secretWrites = 1

\* the provider of the two repository URLs components declare
ExpectedAnnotation(gitURL) ==
    IF gitURL = UrlHttps THEN <<"h", "s", ":", "/", "/", "g", "h">> ELSE <<>>

\* C13: once SubmitNewBuild has written the declared Secret, the stored
\* tekton.dev/git-0 annotation is the provider of the repository URL, or the
\* empty string when the URL has none, whatever the annotation was before;
\* the invocation goes on to the ServiceAccount, and if no later step fails
\* it creates the PipelineRun.
C13_AnnotationOverwritten ==
    \A c \in Comps :
        /\ (pc[c] = "getServiceAccount" /\ trace[c].secretWrites = 1)
           => /\ secrets[local[c].gitSecretName].annotated
              /\ secrets[local[c].gitSecretName].annotation = ExpectedAnnotation(local[c].url)
        /\ (pc[c] = "done" /\ trace[c].secretWrites = 1 /\ ~trace[c].failed)
           => trace[c].creates = 1

C13_Witness ==
    \E c \in Comps :
        /\ pc[c] = "done" /\ trace[c].secretWrites = 1 /\ trace[c].creates = 1
        /\ trace[c].oldAnnotated
        /\ components[c].url = UrlShorthand
        /\ secrets[components[c].secret].annotation = <<>>

\* C14: every PipelineRun in the namespace is owned by the component it was
\* created for.
C14_EveryRunOwned ==
    \A i \in 1..Len(pipelineRuns) : pipelineRuns[i].owner = pipelineRuns[i].component

\* C15: an invocation writes the Secret at most once and the ServiceAccount at
\* most once; one that ran SubmitNewBuild and returned no error has created
\* exactly one PipelineRun, and one that returned an error has created none.
C15_BoundedSideEffects ==
    \A c \in Comps :
        /\ trace[c].secretWrites <= 1
        /\ trace[c].saWrites <= 1
        /\ trace[c].creates <= 1
        /\ (pc[c] = "done" /\ trace[c].submit /\ result[c].err = "")
           => /\ trace[c].creates = 1
              /\ Cardinality(RunsOf(c)) = trace[c].runsAtStart + 1
        /\ (pc[c] = "done" /\ result[c].err # "")
           => /\ trace[c].creates = 0
              /\ Cardinality(RunsOf(c)) = trace[c].runsAtStart

C15_Witness ==
    \E c \in Comps :
        /\ pc[c] = "done" /\ trace[c].submit /\ result[c].err = ""
        /\ trace[c].secretWrites = 1 /\ trace[c].saWrites = 1 /\ trace[c].creates = 1

\* the invocation found the component with an empty Status.Devfile
DevfileEmpty(c) ==
    pc[c] = "done" /\ trace[c].componentGet = "found" /\ ~trace[c].ready

\* C16 as stated: a Reconcile that finds Status.Devfile empty returns no error
\* and a requeue after the fixed delay.
C16_NotReadyRequeues ==
    \A c \in Comps :
        DevfileEmpty(c)
        => result[c].err = "" /\ result[c].requeueAfter = RequeueAfterSeconds

\* C16: a Reconcile that finds Status.Devfile empty returns no error and no
\* requeue, having written nothing; one that does not find the trigger
\* template returns no error and a requeue after 5 seconds.
C16_NotReadyNeverAnError ==
    \A c \in Comps :
        /\ DevfileEmpty(c)
           => /\ result[c].err = "" /\ result[c].requeueAfter = 0
              /\ NoWrites(c)
        /\ (pc[c] = "done" /\ trace[c].templateGet = "notfound")
           => result[c].err = "" /\ result[c].requeueAfter = 5

C16_Witness ==
    \E c \in Comps : DevfileEmpty(c) /\ result[c] = NoResult

\* the invocation has written something or has entered SubmitNewBuild
Acted(c) ==
    \/ trace[c].submit
    \/ trace[c].secretWrites > 0 \/ trace[c].saWrites > 0 \/ trace[c].creates > 0
    \/ Cardinality(RunsOf(c)) # trace[c].runsAtStart

\* C18: an invocation writes the Secret or the ServiceAccount or creates a
\* PipelineRun only if it found the component, with a non-empty
\* Status.Devfile, generated the expected trigger template, found the
\* existing one, and IsNewBuildRequired returned (true, nil).
C18_BuildOnlyOnDrift ==
    \A c \in Comps :
        Acted(c)
        => /\ trace[c].componentGet = "found"
           /\ trace[c].ready
           /\ trace[c].generated
           /\ trace[c].templateGet = "found"
           /\ trace[c].detector = "true"

C18_Witness ==
    \E c \in Comps :
        /\ pc[c] = "done" /\ trace[c].creates = 1 /\ trace[c].detector = "true"
        /\ trace[c].runsAtStart = 1

\* C17: getGitProvider returns no error and the lower-case scheme, "://" and
\* the host, without user information, path and query, for
\* scheme://[user@]host[/path][?query], and scheme:// for scheme:path; it
\* returns the empty string and an error for host/path, user@host:path, a
\* leading colon and a port that is no number; it succeeds exactly when
\* url.Parse succeeds with a non-empty scheme.
C17_ProviderIsSchemeAndHost ==
    gp.called
    => /\ gp.form = "url"
          => ~gp.err /\ gp.provider = ToLower(gp.scheme) \o <<":", "/", "/">> \o gp.host
       /\ gp.form = "opaque"
          => ~gp.err /\ gp.provider = ToLower(gp.scheme) \o <<":", "/", "/">>
       /\ gp.form \in {"hostpath", "shorthand", "colon", "badport"}
          => gp.err /\ gp.provider = <<>>
       /\ ~gp.err <=> (~UrlParse(gp.url).err /\ UrlParse(gp.url).scheme # <<>>)

C17_Witness ==
    /\ gp.called /\ ~gp.err
    /\ gp.url = <<"H", "s", ":", "/", "/", "u", "@", "g", "h", ":", "1", "/", "r", "?", "a">>
    /\ gp.provider = <<"h", "s", ":", "/", "/", "g", "h", ":", "1">>


\* how often a name is in the list
Occurrences(name, linked) == Cardinality({i \in 1..Len(linked) : linked[i] = name})

\* C19: an invocation about to create the PipelineRun of a component that
\* declares a Secret has written that Secret, and the Secret is in the stored
\* ServiceAccount's list; an invocation that failed has created no
\* PipelineRun; no declared Secret is in the stored list twice.
C19_LinkedBeforeCreate ==
    /\ \A c \in Comps :
         /\ (pc[c] = "createPipelineRun" /\ local[c].gitSecretName # "")
            => /\ trace[c].secretWrites = 1
               /\ secrets[local[c].gitSecretName].annotated
               /\ serviceAccount.exists
               /\ local[c].gitSecretName \in Range(serviceAccount.secrets)
         /\ (pc[c] = "done" /\ trace[c].failed) => trace[c].creates = 0
    /\ \A n \in SecretNames : Occurrences(n, serviceAccount.secrets) <= 1

C19_Witness ==
    \E c \in Comps :
        /\ pc[c] = "done" /\ result[c].err = ""
        /\ trace[c].creates = 1 /\ trace[c].saWrites = 0
        /\ Cardinality(RunsOf(c)) = 1
        /\ Occurrences(components[c].secret, serviceAccount.secrets) = 1

\* C20: IsNewBuildRequired returns a decision or an error for every pair of
\* trigger templates: no invocation ends in an index-out-of-range panic.
C20_DetectorTotal ==
    \A c \in Comps : pc[c] # "panicked" /\ trace[c].detector # "panic"

\* C21: an invocation for a component that declares no Secret does not write
\* the ServiceAccount, and the stored ServiceAccount's list never holds the
\* empty name.
C21_OnlyDeclaredNamesLinked ==
    /\ \A c \in Comps :
         (trace[c].submit /\ components[c].secret = "") => trace[c].saWrites = 0
    /\ "" \notin Range(serviceAccount.secrets)

\* both declared Secrets are in the stored ServiceAccount's list and each
\* component has a PipelineRun
BothBuilt ==
    \A c \in Comps :
        /\ components[c].secret \in Range(serviceAccount.secrets)
        /\ RunsOf(c) # {}

\* C22: two drifted components that declare different Secrets and are
\* reconciled concurrently on one ServiceAccount, each reconciled again
\* whenever its Reconcile returned an error: eventually both Secrets are in
\* the stored list and each component has a PipelineRun.
C22_BothBuiltEventually == <>BothBuilt

C22_Witness ==
    /\ BothBuilt
    /\ serviceAccount.resourceVersion = 3
    /\ \A c \in Comps : pc[c] = "done" /\ result[c] = NoResult /\ trace[c].saReads = 1
    /\ \E c \in Comps : trace[c].saWrites = 1 /\ trace[c].secretWrites = 1

====
